---- MODULE Spec2Model ----
(***************************************************************************)
(* Model of zkvm/utils/src/k256.rs: ECDSA public-key recovery from an      *)
(* untrusted hint (unconstrained_recover_ecdsa), point decompression       *)
(* (decompress_pubkey), re-verification (verify_signature) and the         *)
(* orchestrator (ecrecover).                                               *)
(*                                                                         *)
(* secp256k1 is scaled down to the curve y^2 = x^3 + 3 over GF(19), whose  *)
(* group has prime order 13 < 19, so that, as on secp256k1, the scalar     *)
(* field is smaller than the coordinate field, a coordinate may be at or   *)
(* above the group order, and the group order is 1 mod 4.  A 32-byte       *)
(* big-endian array is a WordBits-bit word, given by its big-endian value. *)
(***************************************************************************)
EXTENDS Integers, Sequences, FiniteSets, TLC

(* ------------------------------ the curve ------------------------------ *)

\* Bits of a "32-byte" word.
WordBits == 5

\* Coordinate field modulus, curve constant b of y^2 = x^3 + b, group order.
FieldP == 19
CurveB == 3
CurveN == 13

\* The generator (Secp256k1AffinePoint::GENERATOR).
GENERATOR == <<1, 2>>

\* The point at infinity, which has no affine representation.
Infinity == <<-1, -1>>

FieldInv(a) == CHOOSE i \in 0..(FieldP - 1) : (a * i) % FieldP = 1

OnCurve(pt) ==
    /\ pt[1] \in 0..(FieldP - 1)
    /\ pt[2] \in 0..(FieldP - 1)
    /\ (pt[2] * pt[2]) % FieldP = (pt[1] * pt[1] * pt[1] + CurveB) % FieldP

CurvePoints == {pt \in (0..(FieldP - 1)) \X (0..(FieldP - 1)) : OnCurve(pt)}

PointNeg(a) == IF a = Infinity THEN Infinity ELSE <<a[1], (FieldP - a[2]) % FieldP>>

\* Affine group law (chord and tangent), with the point at infinity.
PointAddRaw(a, b) ==
    IF a = Infinity THEN b
    ELSE IF b = Infinity THEN a
    ELSE IF a[1] = b[1] /\ (a[2] + b[2]) % FieldP = 0 THEN Infinity
    ELSE LET lam == IF a = b
                    THEN (3 * a[1] * a[1] * FieldInv((2 * a[2]) % FieldP)) % FieldP
                    ELSE ((b[2] - a[2] + FieldP) * FieldInv((b[1] - a[1] + FieldP) % FieldP)) % FieldP
             x3 == (lam * lam + 2 * FieldP - a[1] - b[1]) % FieldP
             y3 == (lam * (a[1] - x3 + FieldP) + FieldP - a[2]) % FieldP
         IN <<x3, y3>>

AllPoints == CurvePoints \cup {Infinity}

\* The group law as a table over the (small) group.
AddTable == [a \in AllPoints |-> [b \in AllPoints |-> PointAddRaw(a, b)]]

PointAdd(a, b) == AddTable[a][b]

(* ------------------------------- scalars ------------------------------- *)

Scalars == 0..(CurveN - 1)

\* Scalar::invert: None (here -1) for zero.
ScalarInvTable ==
    [s \in Scalars |-> IF s = 0 THEN -1
                       ELSE CHOOSE i \in Scalars : (s * i) % CurveN = 1]

ScalarInvert(s) == ScalarInvTable[s]

ScalarMul(a, b) == (a * b) % CurveN

\* Scalar::from_repr: Some(w) iff the big-endian value is below the group
\* order; None is -1.
from_repr(w) == IF w < CurveN THEN w ELSE -1

\* bits2field::<Secp256k1> on a slice of exactly the field size copies it;
\* it fails only for a slice shorter than half the field size.
bits2field(len, w) == IF 2 * len < 32 THEN [ok |-> FALSE, val |-> 0]
                      ELSE [ok |-> TRUE, val |-> w]

Pow2(i) == 2 ^ i

\* Scalar::to_bytes: the big-endian digits of a word.
to_bytes(v) == [i \in 1..WordBits |-> (v \div Pow2(WordBits - i)) % 2]

\* <[u8]>::reverse
reverse(s) == [i \in 1..Len(s) |-> s[Len(s) + 1 - i]]

\* The value of a little-endian digit sequence.
RECURSIVE FromLe(_)
FromLe(s) == IF s = <<>> THEN 0 ELSE s[1] + 2 * FromLe(Tail(s))

\* The value of a big-endian digit sequence.
FromBe(s) == FromLe(reverse(s))

\* Scalar::to_le_bits
to_le_bits(v) == [i \in 1..WordBits |-> ((v \div Pow2(i - 1)) % 2) = 1]

(* --------------------- primitives of the environment -------------------- *)

\* AffinePoint::multi_scalar_multiplication: double-and-add over the two
\* little-endian bit sequences; None (here Infinity) when the sum has no
\* affine representation.
RECURSIVE msm_loop(_, _, _, _, _, _)
msm_loop(i, a_bits_le, temp_a, b_bits_le, temp_b, res) ==
    IF i > Len(a_bits_le) THEN res
    ELSE LET r1 == IF a_bits_le[i] THEN PointAdd(res, temp_a) ELSE res
             r2 == IF b_bits_le[i] THEN PointAdd(r1, temp_b) ELSE r1
         IN msm_loop(i + 1, a_bits_le, PointAdd(temp_a, temp_a),
                     b_bits_le, PointAdd(temp_b, temp_b), r2)

multi_scalar_multiplication(a_bits_le, a, b_bits_le, b) ==
    msm_loop(1, a_bits_le, a, b_bits_le, b, Infinity)

\* syscall_secp256k1_decompress: Y from X and the parity flag; it has no
\* error return, so an X with no point on the curve ends the execution
\* (result -1).
syscall_secp256k1_decompress(x, is_odd) ==
    LET ys == {y \in 0..(FieldP - 1) : OnCurve(<<x, y>>) /\ ((y % 2) = 1) = is_odd}
    IN IF ys = {} THEN -1 ELSE CHOOSE y \in ys : TRUE

(* ------------------------------ the program ----------------------------- *)

None == -1

\* A value read from the hint channel: its length in bytes and its content.
\* The content of a compressed key is <<parity byte, X>>.
Abort(line) == [tag |-> "abort", at |-> line]

\* No outcome yet.
Nothing == [tag |-> "none"]

\* unconstrained_recover_ecdsa, after the request is written: the two reads,
\* their conversions to fixed-size arrays and the scalar decoding.
unconstrained_recover_ecdsa(first, second) ==
    IF first.len # 33 THEN Abort(35)
    ELSE IF second.len # 32 THEN Abort(36)
    ELSE LET field == bits2field(second.len, second.data)
         IN IF ~field.ok \/ from_repr(field.val) = None THEN Abort(37)
            ELSE [tag |-> "ret", recovered_bytes |-> first.data,
                  s_inverse |-> from_repr(field.val)]

\* decompress_pubkey with the parity byte matched as "2, else odd".
decompress_pubkey_lax(compressed_key) ==
    LET is_odd == (compressed_key[1] # 2)
        y == syscall_secp256k1_decompress(compressed_key[2], is_odd)
        call == [x |-> compressed_key[2], is_odd |-> is_odd, y |-> y]
    IN IF y = -1
       THEN [tag |-> "abort", at |-> 118, syscalls |-> <<call>>]
       ELSE [tag |-> "ok", key |-> <<4, compressed_key[2], y>>,
             syscalls |-> <<call>>]

\* decompress_pubkey: the outcome and the invocations of the primitive.
decompress_pubkey(compressed_key) ==
    IF compressed_key[1] \notin {2, 3}
    THEN [tag |-> "err", msg |-> "invalid compressed key", syscalls |-> <<>>]
    ELSE LET is_odd == (compressed_key[1] = 3)
             y == syscall_secp256k1_decompress(compressed_key[2], is_odd)
             call == [x |-> compressed_key[2], is_odd |-> is_odd, y |-> y]
         IN IF y = -1
            THEN [tag |-> "abort", at |-> 118, syscalls |-> <<call>>]
            ELSE [tag |-> "ok", key |-> <<4, compressed_key[2], y>>,
                  syscalls |-> <<call>>]

\* The last comparison with x reduced mod n instead of decoded.
verify_compare_reduced(r, res) ==
    [tag |-> "ret", val |-> (r = res[1] % CurveN)]

\* The last comparison of verify_signature, on the x coordinate of R'.
verify_compare(r, res) ==
    LET x_le == reverse(to_bytes(res[1]))
        x_bytes_be == reverse(x_le)
        x_field == bits2field(32, FromBe(x_bytes_be))
    IN IF ~x_field.ok THEN [tag |-> "ret", val |-> FALSE]
       ELSE IF from_repr(x_field.val) = None THEN Abort(105)
       ELSE [tag |-> "ret", val |-> (r = from_repr(x_field.val))]

\* The resolution of s^-1 without the assertion on a supplied inverse.
resolve_s_inv_unchecked(s, s_inverse) ==
    IF s_inverse # None THEN s_inverse ELSE ScalarInvert(s)

\* The resolution of s^-1 in verify_signature: the supplied inverse, checked
\* by assert_eq!, or the computed one; None stands for the failed assertion.
resolve_s_inv(s, s_inverse) ==
    IF s_inverse # None
    THEN (IF ScalarMul(s_inverse, s) = 1 THEN s_inverse ELSE None)
    ELSE ScalarInvert(s)

\* verify_signature(pubkey, msg_hash, signature, s_inverse); signature is
\* <<r, s>> and s_inverse a scalar or None.
verify_signature(pubkey, msg_hash, signature, s_inverse) ==
    LET pubkey_x == from_repr(bits2field(32, pubkey[2]).val)
        pubkey_y == from_repr(bits2field(32, pubkey[3]).val)
    IN IF pubkey_x = None THEN Abort(47)
       ELSE IF pubkey_y = None THEN Abort(48)
       ELSE
       LET pubkey_x_le_bytes == reverse(to_bytes(pubkey_x))
           pubkey_y_le_bytes == reverse(to_bytes(pubkey_y))
           affine == <<FromLe(pubkey_x_le_bytes), FromLe(pubkey_y_le_bytes)>>
           field == bits2field(32, msg_hash)
       IN IF ~field.ok THEN [tag |-> "ret", val |-> FALSE]
          ELSE IF from_repr(field.val) = None THEN Abort(60)
          ELSE
          LET z == from_repr(field.val)
              r == signature[1]
              s == signature[2]
              s_inv == resolve_s_inv(s, s_inverse)
          IN IF s_inv = None THEN Abort(IF s_inverse # None THEN 66 ELSE 70)
             ELSE
             LET u1 == ScalarMul(z, s_inv)
                 u2 == ScalarMul(r, s_inv)
                 res == multi_scalar_multiplication(
                            to_le_bits(u1), GENERATOR, to_le_bits(u2), affine)
             IN IF res = Infinity THEN Abort(94)
                ELSE verify_compare(r, res)

\* Signature::from_slice(&sig[..64]): r and s nonzero scalars below the
\* group order, or an error.
Signature_from_slice(sig) ==
    IF sig[1] \in 1..(CurveN - 1) /\ sig[2] \in 1..(CurveN - 1)
    THEN [ok |-> TRUE, val |-> <<sig[1], sig[2]>>]
    ELSE [ok |-> FALSE, val |-> <<>>]

\* ecrecover's ? on the result of decompress_pubkey (with its context).
decompress_failed == [tag |-> "Err", msg |-> "decompress pubkey failed"]

\* The end of ecrecover with the verifier's answer ignored.
ecrecover_result_unchecked(verified, pubkey) == [tag |-> "Ok", key |-> pubkey]

\* The end of ecrecover: the result from the verifier's answer.
ecrecover_result(verified, pubkey) ==
    IF verified THEN [tag |-> "Ok", key |-> pubkey]
    ELSE [tag |-> "Err", msg |-> "failed to verify signature"]

(* ------------------------------- the state ------------------------------ *)

VARIABLES
    pc,           \* position of the call
    sig,          \* <<r, s>>: bytes 0..64 of the signature, as two words
    msg_hash,     \* the 32-byte digest
    hook_buf,     \* what was written to FD_ECRECOVER_HOOK, or <<>>
    hint,         \* <<first, second>>: the two values read back, or <<>>
    recovered,    \* the outcome of unconstrained_recover_ecdsa, or Nothing
    decompressed, \* the outcome of decompress_pubkey, or Nothing
    pubkey,       \* the candidate key <<4, X, Y>> given to the verifier, or <<>>
    s_inverse,    \* the inverse given to the verifier, or None
    verified,     \* the outcome of verify_signature, or Nothing
    result,       \* what ecrecover returned (Ok, Err), that it aborted, or Nothing
    trace,        \* the steps performed, in order
    base          \* the signature before it was tampered with, or <<>>

vars == <<pc, sig, msg_hash, hook_buf, hint, recovered, decompressed, pubkey,
          s_inverse, verified, result, trace, base>>

(* ------------------------------- the bounds ----------------------------- *)

\* The words tried for r and s of ecrecover's signature: 0 .. MaxSigWord.
MaxSigWord == 12
\* The digests tried for ecrecover: 0 .. MaxDigest.
MaxDigest == 13
\* The words tried for the hinted X: 0 .. MaxHintX.
MaxHintX == 14
\* The words tried for the hinted inverse: 0 .. MaxHintInv.
MaxHintInv == 13
\* The hinted lengths tried differ from the right one by at most LenSlack.
LenSlack == 1
\* The digests tried for verify_signature called alone: 0 .. MaxVerifyDigest.
MaxVerifyDigest == 13

SigWords == 0..MaxSigWord
Digests == 0..MaxDigest
HintXs == 0..MaxHintX
HintInvs == 0..MaxHintInv
ParityBytes == {2, 3, 4}

\* The values the hint channel can return first and second.  A value of the
\* wrong length has no content the program reads.
FirstReads ==
    {[len |-> 33, data |-> <<b, x>>] : b \in ParityBytes, x \in HintXs}
    \cup {[len |-> l, data |-> <<0, 0>>] : l \in ((33 - LenSlack)..(33 + LenSlack)) \ {33}}
\* The second value when the call ended before reading it.
NotRead == [len |-> 0, data |-> 0]

SecondReads ==
    {[len |-> 32, data |-> w] : w \in HintInvs}
    \cup {[len |-> l, data |-> 0] : l \in ((32 - LenSlack)..(32 + LenSlack)) \ {32}}

(* ------------------------------- ecrecover ------------------------------ *)

Init ==
    /\ pc = "start"
    /\ sig \in SigWords \X SigWords
    /\ msg_hash \in Digests
    /\ hook_buf = <<>>
    /\ hint = <<>>
    /\ recovered = Nothing
    /\ decompressed = Nothing
    /\ pubkey = <<>>
    /\ s_inverse = None
    /\ verified = Nothing
    /\ result = Nothing
    /\ trace = <<>>
    /\ base = <<>>

\* unconstrained_recover_ecdsa, the unconstrained block: the request.
HintRequest ==
    /\ pc = "start"
    /\ hook_buf' = <<sig, msg_hash>>
    /\ trace' = Append(trace, "hint_request")
    /\ pc' = "hint_read"
    /\ UNCHANGED <<sig, msg_hash, hint, recovered, decompressed, pubkey,
                   s_inverse, verified, result, base>>

\* unconstrained_recover_ecdsa, the two reads and their decoding.  The second
\* value is read only if the first one has the right length.
HintRead ==
    /\ pc = "hint_read"
    /\ \E first \in FirstReads :
       \E second \in (IF first.len = 33 THEN SecondReads ELSE {NotRead}) :
          LET out == unconstrained_recover_ecdsa(first, second)
          IN /\ hint' = IF first.len = 33 THEN <<first, second>> ELSE <<first>>
             /\ recovered' = out
             /\ IF out.tag = "abort"
                THEN /\ pc' = "done"
                     /\ result' = out
                ELSE /\ pc' = "decompress"
                     /\ result' = result
    /\ trace' = Append(trace, "hint_read")
    /\ UNCHANGED <<sig, msg_hash, hook_buf, decompressed, pubkey, s_inverse,
                   verified, base>>

\* ecrecover, the call of decompress_pubkey and the ? on its result.
Decompress ==
    /\ pc = "decompress"
    /\ LET out == decompress_pubkey(recovered.recovered_bytes)
       IN /\ decompressed' = out
          /\ CASE out.tag = "ok" ->
                    /\ pubkey' = out.key
                    /\ pc' = "verify"
                    /\ result' = result
               [] out.tag = "err" ->
                    /\ pubkey' = pubkey
                    /\ pc' = "done"
                    /\ result' = decompress_failed
               [] OTHER ->
                    /\ pubkey' = pubkey
                    /\ pc' = "done"
                    /\ result' = Abort(out.at)
    /\ trace' = Append(trace, "decompress")
    /\ UNCHANGED <<sig, msg_hash, hook_buf, hint, recovered, s_inverse, verified,
                   base>>

\* ecrecover, the call of verify_signature and the return.
Verify ==
    /\ pc = "verify"
    /\ LET signature == Signature_from_slice(sig)
       IN IF ~signature.ok
          THEN /\ result' = Abort(135)
               /\ UNCHANGED <<s_inverse, verified, trace>>
          ELSE LET out == verify_signature(pubkey, msg_hash, signature.val,
                                           recovered.s_inverse)
               IN /\ s_inverse' = recovered.s_inverse
                  /\ verified' = out
                  /\ trace' = Append(trace, "verify")
                  /\ result' = IF out.tag = "abort" THEN out
                               ELSE ecrecover_result(out.val, pubkey)
    /\ pc' = "done"
    /\ UNCHANGED <<sig, msg_hash, hook_buf, hint, recovered, decompressed, pubkey,
                   base>>

Next == HintRequest \/ HintRead \/ Decompress \/ Verify

Spec == Init /\ [][Next]_vars

\* ecrecover as a function of its arguments and of what the channel returns.
ecrecover(sig_, msg_hash_, first, second) ==
    LET rec == unconstrained_recover_ecdsa(first, second)
    IN IF rec.tag = "abort" THEN rec
       ELSE LET dec == decompress_pubkey(rec.recovered_bytes)
            IN IF dec.tag = "err" THEN decompress_failed
               ELSE IF dec.tag = "abort" THEN Abort(dec.at)
               ELSE LET signature == Signature_from_slice(sig_)
                    IN IF ~signature.ok THEN Abort(135)
                       ELSE LET out == verify_signature(dec.key, msg_hash_,
                                           signature.val, rec.s_inverse)
                            IN IF out.tag = "abort" THEN out
                               ELSE ecrecover_result(out.val, dec.key)

(* --------------------------- verify_signature --------------------------- *)

\* The uncompressed form of a point.
Uncompressed(pt) == <<4, pt[1], pt[2]>>

\* One bit of a word flipped.
FlipBit(w, i) == IF (w \div Pow2(i)) % 2 = 1 THEN w - Pow2(i) ELSE w + Pow2(i)

\* verify_signature called alone: any key on the curve, any digest, any
\* signature (r and s nonzero scalars), any scalar or none as the inverse.
InitVerify ==
    /\ pc = "call"
    /\ sig \in (1..(CurveN - 1)) \X (1..(CurveN - 1))
    /\ msg_hash \in 0..MaxVerifyDigest
    /\ pubkey \in {Uncompressed(pt) : pt \in CurvePoints}
    /\ s_inverse \in Scalars \cup {None}
    /\ hook_buf = <<>>
    /\ hint = <<>>
    /\ recovered = Nothing
    /\ decompressed = Nothing
    /\ verified = Nothing
    /\ result = Nothing
    /\ trace = <<>>
    /\ base = <<>>

VerifyCall ==
    /\ pc = "call"
    /\ verified' = verify_signature(pubkey, msg_hash, sig, s_inverse)
    /\ trace' = Append(trace, "verify")
    /\ pc' = "returned"
    /\ UNCHANGED <<sig, msg_hash, hook_buf, hint, recovered, decompressed, pubkey,
                   s_inverse, result, base>>

\* One bit of r or of s of a signature that verified is flipped, the result
\* still a signature, and the verifier is asked again.
Tamper ==
    /\ pc = "returned"
    /\ base = <<>>
    /\ s_inverse = None
    /\ verified = [tag |-> "ret", val |-> TRUE]
    /\ \E i \in 0..(WordBits - 1), which \in {1, 2} :
          LET t == IF which = 1 THEN <<FlipBit(sig[1], i), sig[2]>>
                   ELSE <<sig[1], FlipBit(sig[2], i)>>
          IN /\ Signature_from_slice(t).ok
             /\ sig' = t
    /\ base' = sig
    /\ verified' = Nothing
    /\ pc' = "call"
    /\ UNCHANGED <<msg_hash, hook_buf, hint, recovered, decompressed, pubkey,
                   s_inverse, result, trace>>

NextVerify == VerifyCall \/ Tamper

SpecVerify == InitVerify /\ [][NextVerify]_vars

(* ------------------------- reference definitions ----------------------- *)

\* k * P by repeated addition.
RECURSIVE RefMul(_, _)
RefMul(k, P) == IF k = 0 THEN Infinity ELSE PointAdd(P, RefMul(k - 1, P))

\* The multiples of the generator.
GMul == [k \in Scalars |-> RefMul(k, GENERATOR)]

\* R' = (z * s^-1) * G + (r * s^-1) * Q of the verification identity.
RefRPrime(Q, z, r, s) ==
    LET si == ScalarInvert(s)
    IN PointAdd(GMul[((z % CurveN) * si) % CurveN],
                RefMul((r * si) % CurveN, Q))

\* (r, s) is an ECDSA signature of the digest z under the private key d.
IsSignatureOf(r, s, z, d) ==
    \E k \in 1..(CurveN - 1) :
        LET R == GMul[k]
        IN /\ r = R[1] % CurveN
           /\ r # 0
           /\ s = (ScalarInvert(k) * ((z % CurveN) + r * d)) % CurveN
           /\ s # 0

\* The compressed form of a point, as the channel returns it.
Compressed(pt) == [len |-> 33, data |-> <<2 + (pt[2] % 2), pt[1]>>]

\* The honest answer of the channel for a signature made with the key d.
HonestHint(d, s) ==
    <<Compressed(GMul[d]), [len |-> 32, data |-> ScalarInvert(s)]>>

RetTrue == [tag |-> "ret", val |-> TRUE]
RetFalse == [tag |-> "ret", val |-> FALSE]
VerificationFailed == [tag |-> "Err", msg |-> "failed to verify signature"]

(* -------------------------------- claims -------------------------------- *)

\* C1: no false accept. Whenever ecrecover returns Ok(key), key is the
\* decompression of the hinted compressed key, the hinted inverse times s is
\* 1 mod n, and r is the x coordinate of (z/s)*G + (r/s)*key reduced mod n.
C1_NoFalseAccept ==
    result.tag = "Ok" =>
        LET first == hint[1]
            second == hint[2]
            Q == <<result.key[2], result.key[3]>>
            Rp == RefRPrime(Q, msg_hash, sig[1], sig[2])
        IN /\ first.len = 33
           /\ second.len = 32
           /\ first.data[1] \in {2, 3}
           /\ result.key[1] = 4
           /\ result.key[2] = first.data[2]
           /\ OnCurve(Q)
           /\ Q[2] % 2 = first.data[1] - 2
           /\ second.data \in Scalars
           /\ (second.data * sig[2]) % CurveN = 1
           /\ Rp # Infinity
           /\ sig[1] = Rp[1] % CurveN

\* C1 witness: a call that returned Ok.
C1_Witness == pc = "done" /\ result.tag = "Ok"

\* C2: round trip. If (r, s) is a signature of the digest under a private key
\* d and the channel answers honestly, ecrecover returns Ok with the
\* uncompressed key d*G.
C2_RoundTrip ==
    (pc = "done" /\ Signature_from_slice(sig).ok) =>
        \A d \in 1..(CurveN - 1) :
            (/\ hint = HonestHint(d, sig[2])
             /\ IsSignatureOf(sig[1], sig[2], msg_hash, d))
            => result = [tag |-> "Ok", key |-> Uncompressed(GMul[d])]

\* C3: hint independence. A call that returned Ok with one answer of the
\* channel returns, for the same signature and digest and any other answer,
\* either no key or the same key.
C3_HintIndependence ==
    (pc = "done" /\ result.tag = "Ok") =>
        \A first \in FirstReads, second \in SecondReads :
            LET other == ecrecover(sig, msg_hash, first, second)
            IN other.tag = "Ok" => other.key = result.key

\* C4: a supplied inverse that is not the inverse of s makes verify_signature
\* return false and ecrecover return the verification-failed error.
C4_WrongInverseIsFailure ==
    (/\ pc = "done"
     /\ recovered.tag = "ret"
     /\ decompressed.tag = "ok"
     /\ Signature_from_slice(sig).ok
     /\ (recovered.s_inverse * sig[2]) % CurveN # 1)
    => (verified = RetFalse /\ result = VerificationFailed)

\* C5: a malformed hint (a first value not of 33 bytes, a second value not of
\* 32 bytes or not a scalar below n) ends the call with an error value.
C5_MalformedHintIsError ==
    (/\ pc = "done"
     /\ hint # <<>>
     /\ \/ hint[1].len # 33
        \/ (Len(hint) = 2 /\ (hint[2].len # 32 \/ hint[2].data >= CurveN)))
    => result.tag = "Err"

\* C6: decompress_pubkey returns the invalid-encoding error iff byte 0 is
\* neither 2 nor 3, then without invoking the primitive; for 2 or 3 it invokes
\* the primitive once with parity even or odd, and its result is 4 followed by
\* what the primitive produced.
C6_DecompressEncoding ==
    decompressed.tag # "none" =>
        LET ck == recovered.recovered_bytes
        IN /\ (decompressed.tag = "err") <=> (ck[1] \notin {2, 3})
           /\ ck[1] \notin {2, 3} => decompressed.syscalls = <<>>
           /\ ck[1] \in {2, 3} =>
                 /\ Len(decompressed.syscalls) = 1
                 /\ decompressed.syscalls[1].x = ck[2]
                 /\ decompressed.syscalls[1].is_odd = (ck[1] = 3)
           /\ decompressed.tag = "ok" =>
                 decompressed.key = <<4, decompressed.syscalls[1].x,
                                      decompressed.syscalls[1].y>>

\* C6 witness: the invalid-encoding error was returned.
C6_Witness ==
    /\ decompressed.tag = "err"
    /\ recovered.recovered_bytes[1] = 4
    /\ result = decompress_failed

C9_AcceptanceRule ==
    (/\ pc = "returned"
     /\ s_inverse \in {None, ScalarInvert(sig[2])}
     /\ pubkey[2] < CurveN
     /\ pubkey[3] < CurveN
     /\ msg_hash < CurveN
     /\ RefRPrime(<<pubkey[2], pubkey[3]>>, msg_hash, sig[1], sig[2]) # Infinity)
    => LET Rp == RefRPrime(<<pubkey[2], pubkey[3]>>, msg_hash, sig[1], sig[2])
       IN verified = [tag |-> "ret", val |-> (sig[1] = Rp[1] % CurveN)]

\* C10: input decoding is total. verify_signature does not abort while
\* decoding the key's coordinates or the digest.
C10_DecodingTotal ==
    pc = "returned" => ~(verified.tag = "abort" /\ verified.at \in {47, 48, 60})

====
